---- MODULE Spec2Model ----
(***************************************************************************)
(* The article listing, feed, favorite and tag-assignment core of the      *)
(* articles package (src/articles/models.go), over a relational store      *)
(* (SQLite through GORM).  Tables are sequences of rows; a row's primary   *)
(* key is its index.  gorm.Model's DeletedAt is the Deleted flag of a row  *)
(* (soft delete), its UpdatedAt a reading of the logical clock.            *)
(***************************************************************************)
EXTENDS Integers, Sequences, FiniteSets, TLC

VARIABLES
    article_models,       \* table of ArticleModel rows
    article_user_models,  \* table of ArticleUserModel rows
    favorite_models,      \* table of FavoriteModel rows
    tag_models,           \* table of TagModel rows
    comment_models,       \* table of CommentModel rows
    follow_models,        \* users.FollowModel rows, as <<FollowedByID, FollowingID>>
    clock,                \* time.Now() as a logical clock
    lastFav,              \* history: the (article, author) pairs whose latest call was favoriteBy
    fav,                  \* the favoriteBy calls in flight, one per request task
    au,                   \* the GetArticleUserModel calls in flight, one per request task
    st,                   \* the setTags calls in flight, one per request task
    rd,                   \* the FindManyArticle / GetArticleFeed call in flight
    ctx                   \* the gin.Context of the request passing AuthMiddleware

vars == <<article_models, article_user_models, favorite_models, tag_models, comment_models,
          follow_models, clock, lastFav, fav, au, st, rd, ctx>>

store == <<article_models, article_user_models, favorite_models, tag_models, comment_models,
           follow_models, clock, lastFav>>

----------------------------------------------------------------------------
(* Bounds of the model *)

MaxArticles == 2
MaxFavorites == 2
MaxListedFavorites == 1
MaxFeedArticles == 3
MaxFeedClock == 4
MaxTagRows == 3
MaxAuthorRows == 4
MaxComments == 2
MaxClock == 3
MaxTagList == 2

(* users.UserModel rows: the users table is owned by the users package and *)
(* is fixed here; a user's ID is its index in UserNames.                    *)
UserNames == <<"alice", "bob">>
Users == DOMAIN UserNames
TagNames == {"go", "web"}
Procs == {1, 2}

DefaultLimit == 20
DefaultOffset == 0

----------------------------------------------------------------------------
(* Generic helpers *)

Max(a, b) == IF a >= b THEN a ELSE b
Min(a, b) == IF a <= b THEN a ELSE b

Range(s) == {s[i] : i \in DOMAIN s}

RECURSIVE AscSeq(_)
AscSeq(S) ==
    IF S = {} THEN <<>>
    ELSE LET m == CHOOSE x \in S : \A y \in S : x <= y
         IN  <<m>> \o AscSeq(S \ {m})

(* All sequences over S of length at most n *)
SeqsUpTo(S, n) == UNION {[1..k -> S] : k \in 0..n}

(* SQL OFFSET/LIMIT as GORM's sqlite dialect builds them: a negative limit *)
(* writes no LIMIT, an offset that is not positive writes no OFFSET.       *)
OffsetLimit(s, offset, limit) ==
    LET from == Max(offset, 0) + 1
        upto == IF limit < 0 THEN Len(s) ELSE Min(Len(s), from + limit - 1)
    IN  IF from > upto THEN <<>> ELSE SubSeq(s, from, upto)

----------------------------------------------------------------------------
(* strconv.Atoi on strings given as sequences of characters *)

DigitChars == <<"0", "1", "2", "3", "4", "5", "6", "7", "8", "9">>
IsDigit(c) == \E i \in DOMAIN DigitChars : DigitChars[i] = c
DigitVal(c) == (CHOOSE i \in DOMAIN DigitChars : DigitChars[i] = c) - 1

RECURSIVE DigitsVal(_, _)
DigitsVal(s, acc) ==
    IF s = <<>> THEN acc ELSE DigitsVal(Tail(s), acc * 10 + DigitVal(Head(s)))

Atoi(s) ==
    LET signed == s # <<>> /\ Head(s) \in {"+", "-"}
        body   == IF signed THEN Tail(s) ELSE s
    IN  IF body = <<>> \/ \E i \in DOMAIN body : ~IsDigit(body[i])
        THEN [err |-> TRUE, val |-> 0]
        ELSE [err |-> FALSE,
              val |-> IF signed /\ Head(s) = "-" THEN 0 - DigitsVal(body, 0)
                      ELSE DigitsVal(body, 0)]

ParseOffset(offset) ==
    LET r == Atoi(offset) IN IF r.err THEN DefaultOffset ELSE r.val

(* a limit left at Atoi's zero on an error, for comparison *)
ParseLimitNoDefault(limit) == Atoi(limit).val

ParseLimit(limit) ==
    LET r == Atoi(limit) IN IF r.err THEN DefaultLimit ELSE r.val

----------------------------------------------------------------------------
(* The store as one value, so that a query runs on the live tables or on a *)
(* transaction's snapshot of them.                                         *)

DB == [am  |-> article_models,
       aum |-> article_user_models,
       fm  |-> favorite_models,
       tm  |-> tag_models]

ArticleRow(slug, author, now, tags) ==
    [Slug |-> slug, AuthorID |-> author, UpdatedAt |-> now,
     Deleted |-> FALSE, Tags |-> tags]

ArticleUserRow(uid) == [UserModelID |-> uid]

FavoriteRow(a, u) == [FavoriteID |-> a, FavoriteByID |-> u, Deleted |-> FALSE]

TagRow(name) == [Tag |-> name]

(* tx.Where(users.UserModel{Username: name}).First(&userModel): the ID, 0 if none *)
(* a lookup that takes the first user whatever the name, for comparison *)
UserByNameFirstUser(name) == 1

UserByName(name) ==
    IF \E u \in Users : UserNames[u] = name
    THEN CHOOSE u \in Users : UserNames[u] = name
    ELSE 0

(* db.Where(TagModel{Tag: name}).First(&tagModel): the ID, 0 if none *)
TagByName(tm, name) ==
    IF \E i \in DOMAIN tm : tm[i].Tag = name
    THEN CHOOSE i \in DOMAIN tm : tm[i].Tag = name /\ \A j \in DOMAIN tm : tm[j].Tag = name => i <= j
    ELSE 0

----------------------------------------------------------------------------
(* GetArticleUserModel: db.Where(&ArticleUserModel{UserModelID: id})       *)
(* .FirstOrCreate(&articleUserModel), a find followed by a create.         *)

(* a find that sees no row, for comparison *)
ArticleUserFirstNone(aum, uid) == 0

(* the find: the lowest-ID row of the user, 0 if none *)
ArticleUserFirst(aum, uid) ==
    IF \E i \in DOMAIN aum : aum[i].UserModelID = uid
    THEN CHOOSE i \in DOMAIN aum :
            aum[i].UserModelID = uid /\ \A j \in DOMAIN aum : aum[j].UserModelID = uid => i <= j
    ELSE 0

(* the whole call, run alone: the table after it and the ID it returns *)
GetArticleUserModel(aum, uid) ==
    IF uid = 0 THEN [rows |-> aum, ID |-> 0]
    ELSE LET found == ArticleUserFirst(aum, uid)
         IN  IF found # 0 THEN [rows |-> aum, ID |-> found]
             ELSE [rows |-> Append(aum, ArticleUserRow(uid)), ID |-> Len(aum) + 1]

----------------------------------------------------------------------------
(* Favorites *)

(* A struct condition FavoriteModel{FavoriteID: a, FavoriteByID: u}: GORM  *)
(* leaves a zero-valued field out of the WHERE clause.                     *)
FavoriteStructMatch(row, a, u) ==
    /\ ~row.Deleted
    /\ (a = 0 \/ row.FavoriteID = a)
    /\ (u = 0 \/ row.FavoriteByID = u)

(* a condition on the article alone, for comparison *)
FavoriteMatchArticleOnly(row, a, u) == row.FavoriteID = a

(* A string condition "favorite_id = ? AND favorite_by_id = ?" *)
FavoriteExactMatch(row, a, u) ==
    /\ ~row.Deleted
    /\ row.FavoriteID = a
    /\ row.FavoriteByID = u

favoritesCount(fm, a) ==
    Cardinality({i \in DOMAIN fm : FavoriteStructMatch(fm[i], a, 0)})

(* the First of a struct condition: the lowest-ID matching row, 0 if none *)
FavoriteFirst(fm, a, u) ==
    IF \E i \in DOMAIN fm : FavoriteStructMatch(fm[i], a, u)
    THEN CHOOSE i \in DOMAIN fm :
            /\ FavoriteStructMatch(fm[i], a, u)
            /\ \A j \in DOMAIN fm : FavoriteStructMatch(fm[j], a, u) => i <= j
    ELSE 0

isFavoriteBy(fm, a, u) == FavoriteFirst(fm, a, u) # 0

LiveFavoriteRows(fm, a) == {i \in DOMAIN fm : ~fm[i].Deleted /\ fm[i].FavoriteID = a}

(* a count map that keeps the IDs without favorites, for comparison *)
BatchGetFavoriteCountsWithZeros(fm, articleIDs) ==
    [id \in articleIDs |-> Cardinality(LiveFavoriteRows(fm, id))]

(* BatchGetFavoriteCounts: no query for no ID; else the grouped count of   *)
(* the live rows with favorite_id IN articleIDs, one entry per group       *)
BatchGetFavoriteCounts(fm, articleIDs) ==
    IF articleIDs = {} THEN <<>>
    ELSE LET results == {id \in articleIDs : LiveFavoriteRows(fm, id) # {}}
         IN  [id \in results |-> Cardinality(LiveFavoriteRows(fm, id))]

(* BatchGetFavoriteStatus: no query for no ID or for user 0; else true for *)
(* the FavoriteID of every live row of the user among articleIDs           *)
BatchGetFavoriteStatus(fm, articleIDs, userID) ==
    IF articleIDs = {} \/ userID = 0 THEN <<>>
    ELSE LET favorites == {i \in DOMAIN fm : /\ ~fm[i].Deleted
                                             /\ fm[i].FavoriteID \in articleIDs
                                             /\ fm[i].FavoriteByID = userID}
         IN  [id \in {fm[i].FavoriteID : i \in favorites} |-> TRUE]

(* ArticleSerializer.Response for the viewer myUserModel: the favorited    *)
(* flag and the favorites count of article a                               *)
ArticleSerializerResponse(aum, fm, a, myUserModel) ==
    [Favorite       |-> isFavoriteBy(fm, a, GetArticleUserModel(aum, myUserModel).ID),
     FavoritesCount |-> favoritesCount(fm, a)]

(* ArticlesSerializer.Response: the same two fields of every listed        *)
(* article, read from the batch maps; an absent key reads false or 0       *)
ArticlesSerializerResponse(aum, fm, articleIDs, myUserModel) ==
    LET favoriteCounts == BatchGetFavoriteCounts(fm, articleIDs)
        articleUserModel == GetArticleUserModel(aum, myUserModel)
        favoriteStatus == BatchGetFavoriteStatus(fm, articleIDs, articleUserModel.ID)
    IN  [a \in articleIDs |->
            [Favorite       |-> a \in DOMAIN favoriteStatus,
             FavoritesCount |-> IF a \in DOMAIN favoriteCounts THEN favoriteCounts[a] ELSE 0]]

(* a raw insert, for comparison with the get-or-create below *)
favoriteByRawInsert(fm, a, u) == Append(fm, FavoriteRow(a, u))

(* favoriteBy run alone: db.FirstOrCreate(&favorite, &FavoriteModel{a, u}) *)
favoriteBy(fm, a, u) ==
    IF FavoriteFirst(fm, a, u) # 0 THEN fm ELSE Append(fm, FavoriteRow(a, u))

(* unFavoriteBy: a soft delete of every live row of the pair *)
unFavoriteBy(fm, a, u) ==
    [i \in DOMAIN fm |->
        IF FavoriteExactMatch(fm[i], a, u) THEN [fm[i] EXCEPT !.Deleted = TRUE] ELSE fm[i]]

----------------------------------------------------------------------------
(* setTags *)

TagStruct(tm, i) == [ID |-> i, Tag |-> tm[i].Tag]

(* a batch fetch that finds nothing, for comparison *)
ExistingTagMapNone(tm, tags) == <<>>

(* db.Where("tag IN ?", tags).Find(&existingTags) and the lookup map built *)
(* from it: a later row of a name overwrites an earlier one.               *)
ExistingTagMap(tm, tags) ==
    [n \in {tm[i].Tag : i \in DOMAIN tm} \cap Range(tags) |->
        TagStruct(tm, CHOOSE i \in DOMAIN tm :
            tm[i].Tag = n /\ \A j \in DOMAIN tm : tm[j].Tag = n => j <= i)]

(* a tag column without the index, for comparison: no create fails *)
TagCreateConflictNoIndex(tm, name) == FALSE

(* TagModel.Tag carries a uniqueIndex: db.Create fails on a stored name *)
TagCreateConflict(tm, name) == \E i \in DOMAIN tm : tm[i].Tag = name

(* a refetch without its condition, for comparison: the first row *)
TagRefetchAnyRow(tm, name) == IF tm = <<>> THEN 0 ELSE 1

(* db.Where("tag = ?", tag).First(&existing): the ID, 0 if none *)
TagRefetch(tm, name) == TagByName(tm, name)

(* the loop of setTags run alone, from the batch fetch's map *)
RECURSIVE SetTagsLoop(_, _, _, _)
SetTagsLoop(tm, existingTagMap, tags, tagList) ==
    IF tags = <<>> THEN [tm |-> tm, Tags |-> tagList, err |-> FALSE]
    ELSE LET tag == Head(tags) IN
         IF tag \in DOMAIN existingTagMap
         THEN SetTagsLoop(tm, existingTagMap, Tail(tags),
                          Append(tagList, existingTagMap[tag]))
         ELSE IF ~TagCreateConflict(tm, tag)
         THEN SetTagsLoop(Append(tm, TagRow(tag)), existingTagMap, Tail(tags),
                          Append(tagList, [ID |-> Len(tm) + 1, Tag |-> tag]))
         ELSE LET existing == TagRefetch(tm, tag) IN
              IF existing # 0
              THEN SetTagsLoop(tm, existingTagMap, Tail(tags),
                               Append(tagList, TagStruct(tm, existing)))
              ELSE [tm |-> tm, Tags |-> <<>>, err |-> TRUE]

(* setTags run alone on an article that has no tags yet *)
setTags(tm, tags) ==
    IF Len(tags) = 0 THEN [tm |-> tm, Tags |-> <<>>, err |-> FALSE]
    ELSE SetTagsLoop(tm, ExistingTagMap(tm, tags), tags, <<>>)

----------------------------------------------------------------------------
(* SaveOne, Update, DeleteArticleModel *)

(* ArticleModel.Slug carries a uniqueIndex over every row of the table *)
SlugConflict(am, slug) == \E i \in DOMAIN am : am[i].Slug = slug

(* SaveOne(&article) of a new article: the insert, with the article_tags   *)
(* rows of its Tags (one row per distinct tag)                             *)
SaveOne(am, slug, author, now, tagList) ==
    IF SlugConflict(am, slug) THEN am
    ELSE Append(am, ArticleRow(slug, author, now, {tagList[i].ID : i \in DOMAIN tagList}))

(* model.Update(data): UPDATE ... SET ..., updated_at = now WHERE id = ? on a live row *)
Update(am, id, now) ==
    [i \in DOMAIN am |->
        IF i = id /\ ~am[i].Deleted THEN [am[i] EXCEPT !.UpdatedAt = now] ELSE am[i]]

(* DeleteArticleModel(&ArticleModel{Slug: slug}): a soft delete *)
DeleteArticleModel(am, slug) ==
    [i \in DOMAIN am |->
        IF am[i].Slug = slug /\ ~am[i].Deleted THEN [am[i] EXCEPT !.Deleted = TRUE] ELSE am[i]]

(* FindOneArticle(&ArticleModel{Slug: slug}): the first live row of the    *)
(* slug, or the zero article with gorm.ErrRecordNotFound                   *)
FindOneArticle(am, slug) ==
    LET found == {i \in DOMAIN am : am[i].Slug = slug /\ ~am[i].Deleted}
    IN  IF found = {} THEN [ID |-> 0, err |-> TRUE]
        ELSE [ID |-> CHOOSE i \in found : \A j \in found : i <= j, err |-> FALSE]

(* GORM builds no WHERE clause from a condition without a slug and        *)
(* refuses the delete with ErrMissingWhereClause                           *)
DeleteArticleModelError(slug) == slug = 0

----------------------------------------------------------------------------
(* Comments *)

CommentBodies == {"nice", "thanks"}

CommentRow(article, author, body) ==
    [ArticleID |-> article, AuthorID |-> author, Body |-> body, Deleted |-> FALSE]

(* a condition that drops the body, for comparison *)
CommentMatchByIDOnly(cm, i, condition) ==
    ~cm[i].Deleted /\ (condition.ID = 0 \/ i = condition.ID)

(* A struct condition &CommentModel{Model: gorm.Model{ID: id}, Body: body} *)
(* on the live rows: a zero-valued field is left out of the WHERE clause   *)
CommentStructMatch(cm, i, condition) ==
    /\ ~cm[i].Deleted
    /\ (condition.ID = 0 \/ i = condition.ID)
    /\ (condition.Body = "" \/ cm[i].Body = condition.Body)

(* GORM builds no WHERE clause from the zero struct and refuses the delete *)
DeleteCommentModelError(condition) == condition.ID = 0 /\ condition.Body = ""

(* DeleteCommentModel(condition): a soft delete of the rows that match *)
DeleteCommentModel(cm, condition) ==
    IF DeleteCommentModelError(condition) THEN cm
    ELSE [i \in DOMAIN cm |->
            IF CommentStructMatch(cm, i, condition)
            THEN [cm[i] EXCEPT !.Deleted = TRUE] ELSE cm[i]]

----------------------------------------------------------------------------
(* Queries of the listing and of the feed, on the tables db *)

LiveArticles(am) == {i \in DOMAIN am : ~am[i].Deleted}

(* ORDER BY updated_at desc *)
RECURSIVE OrderUpdatedDesc(_, _)
OrderUpdatedDesc(am, S) ==
    IF S = {} THEN <<>>
    ELSE LET m == CHOOSE x \in S : \A y \in S :
                     \/ am[x].UpdatedAt > am[y].UpdatedAt
                     \/ (am[x].UpdatedAt = am[y].UpdatedAt /\ x <= y)
         IN  <<m>> \o OrderUpdatedDesc(am, S \ {m})

(* A query with no ORDER BY: SQLite walks the table in rowid order *)
RowOrder(S) == AscSeq(S)

(* tagModel's association ArticleModels: the live articles joined by article_tags *)
TagArticles(am, tagID) == {i \in LiveArticles(am) : tagID \in am[i].Tags}

(* articleUserModel's association ArticleModels (ForeignKey AuthorID) *)
AuthorArticles(am, authorID) == {i \in LiveArticles(am) : am[i].AuthorID = authorID}

(* articleUserModel's FavoriteModels (ForeignKey FavoriteByID): live favorite rows *)
FavoritesBy(fm, by) == {i \in DOMAIN fm : ~fm[i].Deleted /\ fm[i].FavoriteByID = by}

(* the batch fetch without its ORDER BY, for comparison *)
FetchByIDsRowOrder(am, ids) == RowOrder(LiveArticles(am) \cap ids)

(* tx.Preload(..).Where("id IN ?", ids).Order("updated_at desc").Find(&models) *)
FetchByIDs(am, ids) == OrderUpdatedDesc(am, LiveArticles(am) \cap ids)

NoArticles == [models |-> <<>>, count |-> 0]

(* the tag path *)
FindByTag(db, tag, limit_int, offset_int) ==
    LET tagID == TagByName(db.tm, tag)
        tempModels == OffsetLimit(RowOrder(TagArticles(db.am, tagID)), offset_int, limit_int)
    IN  IF tagID = 0 THEN NoArticles
        ELSE [models |-> IF Len(tempModels) > 0 THEN FetchByIDs(db.am, Range(tempModels))
                         ELSE <<>>,
              count  |-> Cardinality(TagArticles(db.am, tagID))]

(* the author path, from the ID GetArticleUserModel returned *)
FindByAuthor(db, authorID, limit_int, offset_int) ==
    LET tempModels == OffsetLimit(RowOrder(AuthorArticles(db.am, authorID)), offset_int, limit_int)
    IN  IF authorID = 0 THEN NoArticles
        ELSE [models |-> IF Len(tempModels) > 0 THEN FetchByIDs(db.am, Range(tempModels))
                         ELSE <<>>,
              count  |-> Cardinality(AuthorArticles(db.am, authorID))]

(* the favorited path, from the ID GetArticleUserModel returned *)
FindByFavorited(db, byID, limit_int, offset_int) ==
    LET favoriteModels == OffsetLimit(RowOrder(FavoritesBy(db.fm, byID)), offset_int, limit_int)
        ids == {db.fm[favoriteModels[k]].FavoriteID : k \in DOMAIN favoriteModels}
    IN  IF byID = 0 THEN NoArticles
        ELSE [models |-> IF Len(favoriteModels) > 0 THEN FetchByIDs(db.am, ids) ELSE <<>>,
              count  |-> Cardinality(FavoritesBy(db.fm, byID))]

(* the unfiltered path *)
FindAll(db, limit_int, offset_int) ==
    [models |-> OffsetLimit(RowOrder(LiveArticles(db.am)), offset_int, limit_int),
     count  |-> Cardinality(LiveArticles(db.am))]

(* the chain with author tested first, for comparison *)
ActiveFilterAuthorFirst(tag, author, favorited) ==
    IF author # "" THEN "author"
    ELSE IF tag # "" THEN "tag"
    ELSE IF favorited # "" THEN "favorited"
    ELSE "none"

(* the if / else-if chain over tag, author and favorited *)
ActiveFilter(tag, author, favorited) ==
    IF tag # "" THEN "tag"
    ELSE IF author # "" THEN "author"
    ELSE IF favorited # "" THEN "favorited"
    ELSE "none"

(* FindManyArticle run alone with every storage call succeeding: the       *)
(* articles (as IDs), the count, the error, and the ArticleUserModel table *)
(* after the call.                                                         *)
FindManyArticle(db, tag, author, limit, offset, favorited) ==
    LET offset_int == ParseOffset(offset)
        limit_int  == ParseLimit(limit)
        path == ActiveFilter(tag, author, favorited)
        aumR == IF path = "author" THEN GetArticleUserModel(db.aum, UserByName(author))
                ELSE IF path = "favorited" THEN GetArticleUserModel(db.aum, UserByName(favorited))
                ELSE [rows |-> db.aum, ID |-> 0]
        r == CASE path = "tag"       -> FindByTag(db, tag, limit_int, offset_int)
               [] path = "author"    -> FindByAuthor(db, aumR.ID, limit_int, offset_int)
               [] path = "favorited" -> FindByFavorited(db, aumR.ID, limit_int, offset_int)
               [] OTHER              -> FindAll(db, limit_int, offset_int)
    IN  [models |-> r.models, count |-> r.count, err |-> FALSE, aum |-> aumR.rows]

(* users.UserModel.GetFollowings: the IDs of the users uid follows *)
GetFollowings(follows, uid) == {f[2] : f \in {g \in follows : g[1] = uid}}

(* user IDs taken for ArticleUserModel IDs, for comparison *)
FeedAuthorIDsAsUserIDs(aum, followingUserIDs) == followingUserIDs

(* tx.Where("user_model_id IN ?", followingUserIDs).Find(&articleUserModels), as IDs *)
FeedAuthorIDs(aum, followingUserIDs) ==
    {i \in DOMAIN aum : aum[i].UserModelID \in followingUserIDs}

FeedArticles(am, authorIDs) == {i \in LiveArticles(am) : am[i].AuthorID \in authorIDs}

(* GetArticleFeed of the ArticleUserModel of user uid, run alone with      *)
(* every storage call succeeding                                          *)
GetArticleFeed(db, follows, uid, limit, offset) ==
    LET offset_int == ParseOffset(offset)
        limit_int  == ParseLimit(limit)
        followings == GetFollowings(follows, uid)
        authorIDs  == FeedAuthorIDs(db.aum, followings)
    IN  IF followings # {} /\ authorIDs # {}
        THEN [models |-> OffsetLimit(OrderUpdatedDesc(db.am, FeedArticles(db.am, authorIDs)),
                                     offset_int, limit_int),
              count  |-> Cardinality(FeedArticles(db.am, authorIDs)),
              err    |-> FALSE]
        ELSE [models |-> <<>>, count |-> 0, err |-> FALSE]

----------------------------------------------------------------------------
(* State after construction: empty tables, no call in flight *)

TagLists == SeqsUpTo(TagNames, MaxTagList)

FavIdle == [pc |-> "idle", a |-> 0, u |-> 0]
AuIdle  == [pc |-> "idle", uid |-> 0]
(* created is a history field: the IDs of the Tag rows the call inserted *)
StIdle  == [pc |-> "idle", tags |-> <<>>, existingTagMap |-> <<>>, i |-> 0,
            tagList |-> <<>>, Tags |-> <<>>, err |-> FALSE, created |-> {}]
NoSnap  == <<>>
RdIdle  == [pc |-> "idle", call |-> "", tag |-> "", author |-> "", favorited |-> "",
            uid |-> 0, limit |-> <<>>, offset |-> <<>>, tx |-> "none", snap |-> NoSnap,
            id |-> 0, ids |-> {}, temp |-> <<>>, models |-> <<>>, count |-> 0,
            err |-> FALSE]

NoToken == [kind |-> "none", id |-> 0]
CtxIdle == [pc |-> "idle", auto401 |-> FALSE, token |-> NoToken, my_user_id |-> 0,
            my_user_model |-> 0, status |-> 0]

Init ==
    /\ article_models = <<>>
    /\ article_user_models = <<>>
    /\ favorite_models = <<>>
    /\ tag_models = <<>>
    /\ comment_models = <<>>
    /\ follow_models = {}
    /\ clock = 1
    /\ lastFav = {}
    /\ fav = [p \in Procs |-> FavIdle]
    /\ au = [p \in Procs |-> AuIdle]
    /\ st = [p \in Procs |-> StIdle]
    /\ rd = RdIdle
    /\ ctx = CtxIdle

----------------------------------------------------------------------------
(* Requests served one at a time *)

(* Creating an article: the author's ArticleUserModel, setTags, SaveOne *)
ArticleCreateWrites(u, slug, tags) ==
    LET author == GetArticleUserModel(article_user_models, u)
        tagged == setTags(tag_models, tags)
    IN  /\ article_user_models' = author.rows
        /\ tag_models' = tagged.tm
        /\ article_models' = IF tagged.err THEN article_models
                             ELSE SaveOne(article_models, slug, author.ID, clock, tagged.Tags)
        /\ clock' = clock + 1
        /\ UNCHANGED <<comment_models, favorite_models, follow_models, lastFav>>

(* the handler as the requests served one at a time run it, for user u *)
ArticleCreate(u, slug, tags) ==
    /\ ArticleCreateWrites(u, slug, tags)
    /\ UNCHANGED <<fav, au, st, rd, ctx>>

(* Updating a live article found by its slug *)
ArticleUpdate(id) ==
    /\ id \in LiveArticles(article_models)
    /\ article_models' = Update(article_models, id, clock)
    /\ clock' = clock + 1
    /\ UNCHANGED <<comment_models, article_user_models, favorite_models, tag_models, follow_models,
                   lastFav, fav, au, st, rd, ctx>>

(* Deleting by slug; a slug that names no live article deletes nothing *)
ArticleDelete(slug) ==
    /\ article_models' = DeleteArticleModel(article_models, slug)
    /\ UNCHANGED <<comment_models, article_user_models, favorite_models, tag_models, follow_models,
                   clock, lastFav, fav, au, st, rd, ctx>>

(* Favoriting a live article as user u *)
ArticleFavorite(a, u) ==
    LET me == GetArticleUserModel(article_user_models, u)
        fm == favoriteBy(favorite_models, a, me.ID)
    IN  /\ a \in LiveArticles(article_models)
        /\ article_user_models' = me.rows
        /\ favorite_models' = fm
        /\ lastFav' = lastFav \cup {<<a, me.ID>>}
        /\ UNCHANGED <<comment_models, article_models, tag_models, follow_models, clock, fav, au, st, rd, ctx>>

(* Unfavoriting a live article as user u *)
ArticleUnfavorite(a, u) ==
    LET me == GetArticleUserModel(article_user_models, u)
    IN  /\ a \in LiveArticles(article_models)
        /\ article_user_models' = me.rows
        /\ favorite_models' = unFavoriteBy(favorite_models, a, me.ID)
        /\ lastFav' = lastFav \ {<<a, me.ID>>}
        /\ UNCHANGED <<comment_models, article_models, tag_models, follow_models, clock, fav, au, st, rd, ctx>>

(* users package: u starts to follow v *)
Follow(u, v) ==
    /\ u # v
    /\ follow_models' = follow_models \cup {<<u, v>>}
    /\ UNCHANGED <<comment_models, article_models, article_user_models, favorite_models, tag_models,
                   clock, lastFav, fav, au, st, rd, ctx>>

(* users package: u stops following v *)
Unfollow(u, v) ==
    /\ <<u, v>> \in follow_models
    /\ follow_models' = follow_models \ {<<u, v>>}
    /\ UNCHANGED <<comment_models, article_models, article_user_models, favorite_models, tag_models,
                   clock, lastFav, fav, au, st, rd, ctx>>

(* Commenting a live article as user u *)
ArticleCommentCreate(a, u, body) ==
    LET author == GetArticleUserModel(article_user_models, u)
    IN  /\ a \in LiveArticles(article_models)
        /\ article_user_models' = author.rows
        /\ comment_models' = Append(comment_models, CommentRow(a, author.ID, body))
        /\ UNCHANGED <<article_models, favorite_models, tag_models, follow_models,
                       clock, lastFav, fav, au, st, rd, ctx>>

(* Deleting the comments a condition selects *)
ArticleCommentDelete(condition) ==
    /\ ~DeleteCommentModelError(condition)
    /\ comment_models' = DeleteCommentModel(comment_models, condition)
    /\ UNCHANGED <<article_models, article_user_models, favorite_models, tag_models,
                   follow_models, clock, lastFav, fav, au, st, rd, ctx>>

(* Arguments of the listing and of the feed *)
TagArgs == TagNames \cup {"", "rust"}
NameArgs == Range(UserNames) \cup {"", "nobody"}
LimitArgs == {<<"0">>, <<"1">>, <<"2">>, <<"1", "0">>, <<"-", "1">>, <<"x">>}
OffsetArgs == {<<"0">>, <<"1">>, <<"2">>, <<>>}

(* Listing articles, all storage calls succeeding: what the call returns   *)
(* is FindManyArticle(DB, ..); what it leaves in storage is the            *)
(* ArticleUserModel row of the user an author or favorited filter names.   *)
ArticleList(tag, author, favorited) ==
    LET r == FindManyArticle(DB, tag, author, <<>>, <<>>, favorited)
    IN  /\ article_user_models' = r.aum
        /\ UNCHANGED <<comment_models, article_models, favorite_models, tag_models, follow_models,
                       clock, lastFav, fav, au, st, rd, ctx>>

(* The feed of user u, all storage calls succeeding: what the call returns *)
(* is GetArticleFeed(DB, follow_models, u, ..); the handler makes the      *)
(* viewer's ArticleUserModel first.                                        *)
ArticleFeed(u) ==
    /\ article_user_models' = GetArticleUserModel(article_user_models, u).rows
    /\ UNCHANGED <<comment_models, article_models, favorite_models, tag_models, follow_models,
                   clock, lastFav, fav, au, st, rd, ctx>>

FreshSlug == Len(article_models) + 1

(* The bounds of a run: so many article rows, clock readings and favorite rows *)
Within(maxArticles, maxClock) ==
    Len(article_models) < maxArticles /\ clock <= maxClock

FavoriteRowsWithin(maxRows) == Len(favorite_models') <= maxRows

Next ==
    \/ \E u \in Users, tags \in TagLists :
          Within(MaxArticles, MaxClock) /\ ArticleCreate(u, FreshSlug, tags)
    \/ \E id \in 1..MaxArticles : clock <= MaxClock /\ ArticleUpdate(id)
    \/ \E slug \in 1..MaxArticles : ArticleDelete(slug)
    \/ \E a \in 1..MaxArticles, u \in Users :
          ArticleFavorite(a, u) /\ FavoriteRowsWithin(MaxListedFavorites)
    \/ \E a \in 1..MaxArticles, u \in Users : ArticleUnfavorite(a, u)
    \/ \E author \in NameArgs, favorited \in NameArgs : ArticleList("", author, favorited)
    \/ \E u \in Users : ArticleFeed(u)

Spec == Init /\ [][Next]_vars

(* the conditions a caller deletes comments by: an ID, a body, or both *)
CommentConditions ==
    {[ID |-> id, Body |-> body] : id \in 0..MaxComments, body \in CommentBodies \cup {""}}
        \ {[ID |-> 0, Body |-> ""]}

(* Articles and their comments, created and deleted *)
NextDelete ==
    \/ \E u \in Users :
          Within(MaxArticles, MaxClock) /\ ArticleCreate(u, FreshSlug, <<>>)
    \/ \E slug \in 1..MaxArticles : ArticleDelete(slug)
    \/ \E a \in 1..MaxArticles, u \in Users, body \in CommentBodies :
          Len(comment_models) < MaxComments /\ ArticleCommentCreate(a, u, body)
    \/ \E condition \in CommentConditions : ArticleCommentDelete(condition)

SpecDelete == Init /\ [][NextDelete]_vars

(* Favorites alone: articles without tags, favorited and unfavorited *)
NextFav ==
    \/ \E u \in Users :
          Within(MaxArticles, MaxClock) /\ ArticleCreate(u, FreshSlug, <<>>)
    \/ \E slug \in 1..MaxArticles : ArticleDelete(slug)
    \/ \E a \in 1..MaxArticles, u \in Users :
          ArticleFavorite(a, u) /\ FavoriteRowsWithin(MaxFavorites)
    \/ \E a \in 1..MaxArticles, u \in Users : ArticleUnfavorite(a, u)

SpecFav == Init /\ [][NextFav]_vars

(* The feed: articles without tags or favorites, and who follows whom *)
NextFeed ==
    \/ \E u \in Users :
          Within(MaxFeedArticles, MaxFeedClock) /\ ArticleCreate(u, FreshSlug, <<>>)
    \/ \E id \in 1..MaxFeedArticles : clock <= MaxFeedClock /\ ArticleUpdate(id)
    \/ \E slug \in 1..MaxFeedArticles : ArticleDelete(slug)
    \/ \E u \in Users, v \in Users : Follow(u, v)
    \/ \E u \in Users, v \in Users : Unfollow(u, v)
    \/ \E u \in Users : ArticleFeed(u)

SpecFeed == Init /\ [][NextFeed]_vars

----------------------------------------------------------------------------
(* favoriteBy as the request tasks run it: the find and the create of      *)
(* FirstOrCreate are two statements, and other tasks run between them.     *)

(* the handler up to the find: the caller's ArticleUserModel, then First *)
FavoriteByFind(p, a, u) ==
    LET me == GetArticleUserModel(article_user_models, u)
    IN  /\ fav[p].pc = "idle"
        /\ a \in LiveArticles(article_models)
        /\ article_user_models' = me.rows
        /\ IF FavoriteFirst(favorite_models, a, me.ID) # 0
           THEN /\ fav' = fav
                /\ lastFav' = lastFav \cup {<<a, me.ID>>}
           ELSE /\ fav' = [fav EXCEPT ![p] = [pc |-> "create", a |-> a, u |-> me.ID]]
                /\ lastFav' = lastFav
        /\ UNCHANGED <<comment_models, article_models, favorite_models, tag_models, follow_models,
                       clock, au, st, rd, ctx>>

(* the create of a call whose find saw no row *)
FavoriteByCreate(p) ==
    /\ fav[p].pc = "create"
    /\ favorite_models' = Append(favorite_models, FavoriteRow(fav[p].a, fav[p].u))
    /\ lastFav' = lastFav \cup {<<fav[p].a, fav[p].u>>}
    /\ fav' = [fav EXCEPT ![p] = FavIdle]
    /\ UNCHANGED <<comment_models, article_models, article_user_models, tag_models, follow_models,
                   clock, au, st, rd, ctx>>

NextFavRace ==
    \/ \E u \in Users :
          Within(MaxArticles, MaxClock) /\ ArticleCreate(u, FreshSlug, <<>>)
    \/ \E p \in Procs, a \in 1..MaxArticles, u \in Users :
          Len(favorite_models) < MaxFavorites /\ FavoriteByFind(p, a, u)
    \/ \E p \in Procs : FavoriteByCreate(p)
    \/ \E a \in 1..MaxArticles, u \in Users : ArticleUnfavorite(a, u)

SpecFavRace == Init /\ [][NextFavRace]_vars

----------------------------------------------------------------------------
(* GetArticleUserModel as the request tasks run it: the find and the       *)
(* create of FirstOrCreate are two statements.                             *)

(* the find of a call for user uid; a row found is returned at once *)
ArticleUserFind(p, uid) ==
    /\ au[p].pc = "idle"
    /\ uid # 0
    /\ au' = [au EXCEPT ![p] =
                IF ArticleUserFirst(article_user_models, uid) # 0 THEN AuIdle
                ELSE [pc |-> "create", uid |-> uid]]
    /\ UNCHANGED <<store, fav, st, rd, ctx>>

(* the create of a call whose find saw no row *)
ArticleUserCreate(p) ==
    /\ au[p].pc = "create"
    /\ article_user_models' = Append(article_user_models, ArticleUserRow(au[p].uid))
    /\ au' = [au EXCEPT ![p] = AuIdle]
    /\ UNCHANGED <<comment_models, article_models, favorite_models, tag_models, follow_models,
                   clock, lastFav, fav, st, rd, ctx>>

NextAuthorRace ==
    \/ \E u \in Users :
          Within(MaxArticles, MaxClock) /\ ArticleCreate(u, FreshSlug, <<>>)
    \/ \E p \in Procs, uid \in Users :
          Len(article_user_models) < MaxAuthorRows /\ ArticleUserFind(p, uid)
    \/ \E p \in Procs : ArticleUserCreate(p)

SpecAuthorRace == Init /\ [][NextAuthorRace]_vars

----------------------------------------------------------------------------
(* setTags as the request tasks run it, one storage call a step.  Task p   *)
(* runs setTags on an article of its own; st[p].Tags is that article's     *)
(* Tags field.                                                             *)

(* entry, the empty list, and the batch fetch with its lookup map; the     *)
(* fetch's error is not looked at, a failed fetch leaves the map empty     *)
SetTagsBegin(p, tags, ok) ==
    /\ st[p].pc \in {"idle", "done"}
    /\ st' = [st EXCEPT ![p] =
                IF Len(tags) = 0
                THEN [StIdle EXCEPT !.pc = "done"]
                ELSE [StIdle EXCEPT !.pc = "loop", !.tags = tags, !.i = 1,
                                    !.existingTagMap =
                                        IF ok THEN ExistingTagMap(tag_models, tags)
                                        ELSE <<>>]]
    /\ UNCHANGED <<store, fav, au, rd, ctx>>

(* one turn of the loop up to its storage call: a name of the map is       *)
(* appended; any other name is created, and the create fails on a stored   *)
(* name or on a failing storage call; past the last name the list is       *)
(* assigned to model.Tags                                                  *)
SetTagsStep(p, ok) ==
    LET c   == st[p]
        tag == c.tags[c.i]
    IN  /\ c.pc = "loop"
        /\ IF c.i > Len(c.tags)
           THEN /\ st' = [st EXCEPT ![p].pc = "done", ![p].Tags = c.tagList]
                /\ tag_models' = tag_models
           ELSE IF tag \in DOMAIN c.existingTagMap
           THEN /\ st' = [st EXCEPT ![p].i = c.i + 1,
                                    ![p].tagList = Append(c.tagList, c.existingTagMap[tag])]
                /\ tag_models' = tag_models
           ELSE IF ok /\ ~TagCreateConflict(tag_models, tag)
           THEN /\ tag_models' = Append(tag_models, TagRow(tag))
                /\ st' = [st EXCEPT ![p].i = c.i + 1,
                                    ![p].tagList = Append(c.tagList,
                                        [ID |-> Len(tag_models) + 1, Tag |-> tag]),
                                    ![p].created = c.created \cup {Len(tag_models) + 1}]
           ELSE /\ st' = [st EXCEPT ![p].pc = "refetch"]
                /\ tag_models' = tag_models
        /\ UNCHANGED <<comment_models, article_models, article_user_models, favorite_models,
                       follow_models, clock, lastFav, fav, au, rd, ctx>>

(* after a failed create: the refetch by name, or the create's error *)
SetTagsRefetch(p, ok) ==
    LET c        == st[p]
        tag      == c.tags[c.i]
        existing == IF ok THEN TagRefetch(tag_models, tag) ELSE 0
    IN  /\ c.pc = "refetch"
        /\ st' = [st EXCEPT ![p] =
                    IF existing # 0
                    THEN [c EXCEPT !.pc = "loop", !.i = c.i + 1,
                                   !.tagList = Append(c.tagList, TagStruct(tag_models, existing))]
                    ELSE [c EXCEPT !.pc = "done", !.err = TRUE]]
        /\ UNCHANGED <<store, fav, au, rd, ctx>>

NextTagRace ==
    \/ \E p \in Procs, tags \in TagLists :
          Len(tag_models) < MaxTagRows /\ SetTagsBegin(p, tags, TRUE)
    \/ \E p \in Procs : SetTagsStep(p, TRUE)
    \/ \E p \in Procs : SetTagsRefetch(p, TRUE)

SpecTagRace == Init /\ [][NextTagRace]_vars

(* the same calls with storage calls that may fail *)
NextTagFault ==
    \/ \E p \in Procs, tags \in TagLists, ok \in BOOLEAN :
          Len(tag_models) < MaxTagRows /\ SetTagsBegin(p, tags, ok)
    \/ \E p \in Procs, ok \in BOOLEAN : SetTagsStep(p, ok)
    \/ \E p \in Procs, ok \in BOOLEAN : SetTagsRefetch(p, ok)

SpecTagFault == Init /\ [][NextTagFault]_vars

----------------------------------------------------------------------------
(* AuthMiddleware.  A request carries no token, a token jwt.Parse rejects, *)
(* or a token that verifies and claims a user ID.  ok tells whether the    *)
(* storage call of UpdateContextUserModel succeeds.                        *)

(* the IDs a verifying token may claim: the stored users, and one that is  *)
(* not stored                                                              *)
TokenIDs == Users \cup {Len(UserNames) + 1}
Tokens == {NoToken, [kind |-> "invalid", id |-> 0]}
              \cup {[kind |-> "valid", id |-> id] : id \in TokenIDs}

(* UpdateContextUserModel(c, my_user_id): db.First(&myUserModel, id) for a *)
(* non-zero id, its error not looked at; the zero model if no row is read  *)
UpdateContextUserModel(c, my_user_id, ok) ==
    [c EXCEPT !.my_user_id = my_user_id,
              !.my_user_model = IF my_user_id # 0 /\ ok /\ my_user_id \in Users
                                THEN my_user_id ELSE 0]

(* the middleware on a fresh context: identity 0 first; without a token or *)
(* on a Parse error, 401 and abort if auto401, else on to the handler;     *)
(* with a verified token, the identity of claims["id"] and on              *)
AuthMiddleware(auto401, token, ok) ==
    LET c == UpdateContextUserModel(
                 [CtxIdle EXCEPT !.auto401 = auto401, !.token = token], 0, TRUE)
    IN  IF token.kind # "valid"
        THEN IF auto401 THEN [c EXCEPT !.pc = "aborted", !.status = 401]
             ELSE [c EXCEPT !.pc = "handler"]
        ELSE [UpdateContextUserModel(c, token.id, ok) EXCEPT !.pc = "handler"]

(* a request arrives at a route group and passes its middleware *)
Serve(auto401, token, ok) ==
    /\ ctx.pc \in {"idle", "aborted", "served"}
    /\ ctx' = AuthMiddleware(auto401, token, ok)
    /\ UNCHANGED <<store, fav, au, st, rd>>

(* behind AuthMiddleware(true): ArticleCreate for the context's user *)
HandleArticleCreate ==
    /\ ctx.pc = "handler" /\ ctx.auto401
    /\ \E tags \in TagLists : ArticleCreateWrites(ctx.my_user_model, FreshSlug, tags)
    /\ ctx' = [ctx EXCEPT !.pc = "served", !.status = 201]
    /\ UNCHANGED <<fav, au, st, rd>>

(* behind AuthMiddleware(false): ArticleList without a filter *)
HandleArticleList ==
    /\ ctx.pc = "handler" /\ ~ctx.auto401
    /\ ctx' = [ctx EXCEPT !.pc = "served", !.status = 200]
    /\ UNCHANGED <<store, fav, au, st, rd>>

NextAuth ==
    \/ \E auto401 \in BOOLEAN, token \in Tokens, ok \in BOOLEAN :
          Len(article_models) < MaxArticles /\ Serve(auto401, token, ok)
    \/ HandleArticleCreate
    \/ HandleArticleList

SpecAuth == Init /\ [][NextAuth]_vars

----------------------------------------------------------------------------
(* FindManyArticle and GetArticleFeed as a request task runs them, one     *)
(* storage call a step.  rd is the call: its arguments, its transaction    *)
(* tx, its locals and what it returns.  A statement on tx reads the tables *)
(* as they were at the transaction's first statement; a statement on db    *)
(* reads them as they are.  ok tells whether the storage call succeeds.    *)

TxView == IF rd.tx = "begun" THEN DB ELSE rd.snap

(* the call after a statement on tx *)
TxStatement(r) == [r EXCEPT !.tx = "reading", !.snap = TxView]

(* the call at its return: the locals are gone *)
Return(r) ==
    [r EXCEPT !.pc = "returned", !.snap = NoSnap, !.id = 0, !.ids = {}, !.temp = <<>>]

(* a rollback that does not return, for comparison *)
RolledBackFallsThrough(r) == [r EXCEPT !.tx = "rolledback", !.err = TRUE, !.pc = "commit"]

(* the call after tx.Rollback() and return models, count, err *)
RolledBack(r) == Return([r EXCEPT !.tx = "rolledback", !.err = TRUE])

RdOffset == ParseOffset(rd.offset)
RdLimit == ParseLimit(rd.limit)
RdPath == ActiveFilter(rd.tag, rd.author, rd.favorited)

(* entry: the arguments are parsed and the transaction begun *)
ListBegin(tag, author, limit, offset, favorited) ==
    /\ rd.pc = "idle"
    /\ rd' = [RdIdle EXCEPT
                !.call = "list", !.tag = tag, !.author = author,
                !.favorited = favorited, !.limit = limit, !.offset = offset,
                !.tx = "begun",
                !.pc = CASE ActiveFilter(tag, author, favorited) = "tag" -> "tag_first"
                         [] ActiveFilter(tag, author, favorited) = "none" -> "all_count"
                         [] OTHER -> "user"]
    /\ UNCHANGED <<store, fav, au, st, ctx>>

(* tx.Where(TagModel{Tag: tag}).First(&tagModel) *)
TagFirst(ok) ==
    LET id == IF ok THEN TagByName(TxView.tm, rd.tag) ELSE 0
    IN  /\ rd.pc = "tag_first"
        /\ rd' = TxStatement([rd EXCEPT !.id = id,
                                        !.pc = IF id # 0 THEN "tag_find" ELSE "commit"])
        /\ UNCHANGED <<store, fav, au, st, ctx>>

(* the tag's association Find with offset and limit, or its error *)
TagFind(ok) ==
    /\ rd.pc = "tag_find"
    /\ rd' = IF ok
             THEN TxStatement([rd EXCEPT
                     !.temp = OffsetLimit(RowOrder(TagArticles(TxView.am, rd.id)),
                                          RdOffset, RdLimit),
                     !.pc = "tag_count"])
             ELSE RolledBack(rd)
    /\ UNCHANGED <<store, fav, au, st, ctx>>

(* the tag's association Count *)
TagCount(ok) ==
    /\ rd.pc = "tag_count"
    /\ rd' = TxStatement([rd EXCEPT
                !.count = IF ok THEN Cardinality(TagArticles(TxView.am, rd.id)) ELSE 0,
                !.pc = IF Len(rd.temp) > 0 THEN "fetch" ELSE "commit"])
    /\ UNCHANGED <<store, fav, au, st, ctx>>

(* tx.Where(users.UserModel{Username: ..}).First(&userModel); the zero     *)
(* user makes GetArticleUserModel return the zero model at once            *)
UserFirst(ok) ==
    LET name == IF RdPath = "author" THEN rd.author ELSE rd.favorited
        uid  == IF ok THEN UserByName(name) ELSE 0
    IN  /\ rd.pc = "user"
        /\ rd' = TxStatement([rd EXCEPT !.uid = uid,
                                        !.pc = IF uid # 0 THEN "aum" ELSE "commit"])
        /\ UNCHANGED <<store, fav, au, st, ctx>>

(* GetArticleUserModel(userModel), on db *)
ListArticleUser(ok) ==
    LET me == GetArticleUserModel(article_user_models, rd.uid)
    IN  /\ rd.pc = "aum"
        /\ article_user_models' = IF ok THEN me.rows ELSE article_user_models
        /\ rd' = IF ok
                 THEN [rd EXCEPT !.id = me.ID,
                                 !.pc = IF RdPath = "author" THEN "author_count"
                                        ELSE "favorite_find"]
                 ELSE [rd EXCEPT !.pc = "commit"]
        /\ UNCHANGED <<comment_models, article_models, favorite_models, tag_models, follow_models,
                       clock, lastFav, fav, au, st, ctx>>

(* the author's association Count *)
AuthorCount(ok) ==
    /\ rd.pc = "author_count"
    /\ rd' = TxStatement([rd EXCEPT
                !.count = IF ok THEN Cardinality(AuthorArticles(TxView.am, rd.id)) ELSE 0,
                !.pc = "author_find"])
    /\ UNCHANGED <<store, fav, au, st, ctx>>

(* the author's association Find with offset and limit, or its error *)
AuthorFind(ok) ==
    LET tempModels == OffsetLimit(RowOrder(AuthorArticles(TxView.am, rd.id)),
                                  RdOffset, RdLimit)
    IN  /\ rd.pc = "author_find"
        /\ rd' = IF ok
                 THEN TxStatement([rd EXCEPT
                         !.temp = tempModels,
                         !.pc = IF Len(tempModels) > 0 THEN "fetch" ELSE "commit"])
                 ELSE RolledBack(rd)
        /\ UNCHANGED <<store, fav, au, st, ctx>>

(* the Find of the user's favorite rows with offset and limit; temp keeps  *)
(* their FavoriteID                                                        *)
FavoritedFind(ok) ==
    LET favoriteModels == OffsetLimit(RowOrder(FavoritesBy(TxView.fm, rd.id)),
                                      RdOffset, RdLimit)
    IN  /\ rd.pc = "favorite_find"
        /\ rd' = TxStatement([rd EXCEPT
                    !.temp = IF ok
                             THEN [k \in DOMAIN favoriteModels |->
                                      TxView.fm[favoriteModels[k]].FavoriteID]
                             ELSE <<>>,
                    !.pc = "favorite_count"])
        /\ UNCHANGED <<store, fav, au, st, ctx>>

(* the user's association FavoriteModels Count *)
FavoritedCount(ok) ==
    /\ rd.pc = "favorite_count"
    /\ rd' = TxStatement([rd EXCEPT
                !.count = IF ok THEN Cardinality(FavoritesBy(TxView.fm, rd.id)) ELSE 0,
                !.pc = IF Len(rd.temp) > 0 THEN "fetch" ELSE "commit"])
    /\ UNCHANGED <<store, fav, au, st, ctx>>

(* the fetch of the articles whose IDs temp holds, ordered *)
Fetch(ok) ==
    /\ rd.pc = "fetch"
    /\ rd' = TxStatement([rd EXCEPT
                !.models = IF ok THEN FetchByIDs(TxView.am, Range(rd.temp)) ELSE <<>>,
                !.pc = "commit"])
    /\ UNCHANGED <<store, fav, au, st, ctx>>

(* tx.Model(&ArticleModel{}).Count(&count64) *)
AllCount(ok) ==
    /\ rd.pc = "all_count"
    /\ rd' = TxStatement([rd EXCEPT
                !.count = IF ok THEN Cardinality(LiveArticles(TxView.am)) ELSE 0,
                !.pc = "all_find"])
    /\ UNCHANGED <<store, fav, au, st, ctx>>

(* tx.Offset(offset_int).Limit(limit_int)...Find(&models) *)
AllFind(ok) ==
    /\ rd.pc = "all_find"
    /\ rd' = TxStatement([rd EXCEPT
                !.models = IF ok
                           THEN OffsetLimit(RowOrder(LiveArticles(TxView.am)),
                                            RdOffset, RdLimit)
                           ELSE <<>>,
                !.pc = "commit"])
    /\ UNCHANGED <<store, fav, au, st, ctx>>

(* the feed handler: the viewer's ArticleUserModel, then GetArticleFeed's  *)
(* entry                                                                   *)
FeedBegin(u, limit, offset) ==
    /\ rd.pc = "idle"
    /\ article_user_models' = GetArticleUserModel(article_user_models, u).rows
    /\ rd' = [RdIdle EXCEPT !.call = "feed", !.uid = u, !.limit = limit,
                            !.offset = offset, !.tx = "begun", !.pc = "followings"]
    /\ UNCHANGED <<comment_models, article_models, favorite_models, tag_models, follow_models,
                   clock, lastFav, fav, au, st, ctx>>

(* a feed that goes on to its queries whoever is followed, for comparison *)
FeedFollowingsThenQueries(ok) ==
    /\ rd.pc = "followings"
    /\ rd' = [rd EXCEPT !.ids = Users, !.pc = "feed_authors"]
    /\ UNCHANGED <<store, fav, au, st, ctx>>

(* self.UserModel.GetFollowings(), on db *)
FeedFollowings(ok) ==
    LET followings == IF ok THEN GetFollowings(follow_models, rd.uid) ELSE {}
    IN  /\ rd.pc = "followings"
        /\ rd' = [rd EXCEPT !.ids = followings,
                            !.pc = IF followings # {} THEN "feed_authors" ELSE "commit"]
        /\ UNCHANGED <<store, fav, au, st, ctx>>

(* the ArticleUserModels of the followed users *)
FeedAuthors(ok) ==
    LET authorIDs == IF ok THEN FeedAuthorIDs(TxView.aum, rd.ids) ELSE {}
    IN  /\ rd.pc = "feed_authors"
        /\ rd' = TxStatement([rd EXCEPT
                    !.ids = authorIDs,
                    !.pc = IF authorIDs # {} THEN "feed_count" ELSE "commit"])
        /\ UNCHANGED <<store, fav, au, st, ctx>>

(* the count of the feed's articles *)
FeedCount(ok) ==
    /\ rd.pc = "feed_count"
    /\ rd' = TxStatement([rd EXCEPT
                !.count = IF ok THEN Cardinality(FeedArticles(TxView.am, rd.ids)) ELSE 0,
                !.pc = "feed_find"])
    /\ UNCHANGED <<store, fav, au, st, ctx>>

(* the ordered page of the feed's articles *)
FeedFind(ok) ==
    /\ rd.pc = "feed_find"
    /\ rd' = TxStatement([rd EXCEPT
                !.models = IF ok
                           THEN OffsetLimit(OrderUpdatedDesc(TxView.am,
                                                FeedArticles(TxView.am, rd.ids)),
                                            RdOffset, RdLimit)
                           ELSE <<>>,
                !.pc = "commit"])
    /\ UNCHANGED <<store, fav, au, st, ctx>>

(* err := tx.Commit().Error; return models, count, err *)
Commit(ok) ==
    /\ rd.pc = "commit"
    /\ rd' = Return([rd EXCEPT !.tx = IF ok THEN "committed" ELSE "commit failed",
                               !.err = ~ok])
    /\ UNCHANGED <<store, fav, au, st, ctx>>

(* the handler has answered *)
Finish ==
    /\ rd.pc = "returned"
    /\ rd' = RdIdle
    /\ UNCHANGED <<store, fav, au, st, ctx>>

(* one storage call of the call in flight *)
Statement(ok) ==
    \/ TagFirst(ok) \/ TagFind(ok) \/ TagCount(ok)
    \/ UserFirst(ok) \/ ListArticleUser(ok)
    \/ AuthorCount(ok) \/ AuthorFind(ok)
    \/ FavoritedFind(ok) \/ FavoritedCount(ok)
    \/ Fetch(ok)
    \/ AllCount(ok) \/ AllFind(ok)
    \/ FeedFollowings(ok) \/ FeedAuthors(ok) \/ FeedCount(ok) \/ FeedFind(ok)
    \/ Commit(ok)

TxTagLists == {<<>>, <<"go">>}
TxFilters == {<<"go", "", "">>, <<"", "alice", "">>, <<"", "", "alice">>, <<"", "", "">>}
TxPages == {<<<<>>, <<>>>>, <<<<"1">>, <<"1">>>>}

(* A listing or a feed among requests that write, every storage call       *)
(* succeeding                                                              *)
NextTx ==
    \/ \E u \in Users, tags \in TxTagLists :
          Within(MaxArticles, MaxClock) /\ ArticleCreate(u, FreshSlug, tags)
    \/ \E slug \in 1..MaxArticles : ArticleDelete(slug)
    \/ \E a \in 1..MaxArticles, u \in Users :
          ArticleFavorite(a, u) /\ FavoriteRowsWithin(MaxListedFavorites)
    \/ \E u \in Users, v \in Users : Follow(u, v)
    \/ \E f \in TxFilters, page \in TxPages :
          ListBegin(f[1], f[2], page[1], page[2], f[3])
    \/ \E u \in Users, page \in TxPages : FeedBegin(u, page[1], page[2])
    \/ Statement(TRUE)
    \/ Finish

SpecTx == Init /\ [][NextTx]_vars

(* A listing or a feed between requests that write, storage calls failing *)
NextFault ==
    \/ \E u \in Users, tags \in TxTagLists :
          /\ rd.pc = "idle"
          /\ Within(MaxArticles, MaxClock)
          /\ ArticleCreate(u, FreshSlug, tags)
    \/ \E slug \in 1..MaxArticles : rd.pc = "idle" /\ ArticleDelete(slug)
    \/ \E a \in 1..MaxArticles, u \in Users :
          /\ rd.pc = "idle"
          /\ ArticleFavorite(a, u)
          /\ FavoriteRowsWithin(MaxListedFavorites)
    \/ \E u \in Users, v \in Users : rd.pc = "idle" /\ Follow(u, v)
    \/ \E f \in TxFilters, page \in TxPages :
          ListBegin(f[1], f[2], page[1], page[2], f[3])
    \/ \E u \in Users, page \in TxPages : FeedBegin(u, page[1], page[2])
    \/ \E ok \in BOOLEAN : Statement(ok)
    \/ Finish

SpecFault == Init /\ [][NextFault]_vars

----------------
(* Claims on requests served one at a time *)

AuthorIDs == DOMAIN article_user_models
ArticleIDs == DOMAIN article_models

(* C3: after any sequence of favoriteBy and unFavoriteBy calls run one at  *)
(* a time, favoritesCount of every article is the number of authors whose  *)
(* latest call on it was favoriteBy, and isFavoriteBy is true exactly for  *)
(* those authors.                                                          *)
C3_FavoritesFollowLatestCall ==
    \A a \in ArticleIDs :
        /\ favoritesCount(favorite_models, a)
              = Cardinality({u \in AuthorIDs : <<a, u>> \in lastFav})
        /\ \A u \in AuthorIDs :
              isFavoriteBy(favorite_models, a, u) <=> <<a, u>> \in lastFav

(* favorite, unfavorite, favorite of one pair has happened *)
C3_Witness ==
    \E a \in ArticleIDs, u \in AuthorIDs :
        /\ <<a, u>> \in lastFav
        /\ \E i \in DOMAIN favorite_models :
              /\ favorite_models[i].Deleted
              /\ favorite_models[i].FavoriteID = a
              /\ favorite_models[i].FavoriteByID = u

(* The user an ArticleUserModel ID stands for, 0 for no row *)
UserOfAuthor(id) ==
    IF id \in AuthorIDs THEN article_user_models[id].UserModelID ELSE 0

(* The live articles a single filter selects, read off the tables *)
MatchingArticles(tag, author, favorited) ==
    CASE tag # "" ->
           {i \in ArticleIDs : /\ ~article_models[i].Deleted
                               /\ \E t \in article_models[i].Tags : tag_models[t].Tag = tag}
      [] author # "" ->
           {i \in ArticleIDs : /\ ~article_models[i].Deleted
                               /\ UserOfAuthor(article_models[i].AuthorID) # 0
                               /\ UserNames[UserOfAuthor(article_models[i].AuthorID)] = author}
      [] favorited # "" ->
           {i \in ArticleIDs : /\ ~article_models[i].Deleted
                               /\ \E f \in DOMAIN favorite_models :
                                     /\ ~favorite_models[f].Deleted
                                     /\ favorite_models[f].FavoriteID = i
                                     /\ UserOfAuthor(favorite_models[f].FavoriteByID) # 0
                                     /\ UserNames[UserOfAuthor(favorite_models[f].FavoriteByID)]
                                           = favorited}
      [] OTHER -> {i \in ArticleIDs : ~article_models[i].Deleted}

SingleFilters ==
    {<<t, "", "">> : t \in TagArgs} \cup {<<"", n, "">> : n \in NameArgs}
        \cup {<<"", "", n>> : n \in NameArgs}

(* C5: the count FindManyArticle returns is the number of live articles    *)
(* matching the active filter, whatever the limit and the offset.          *)
C5_CountIsMatchingArticles ==
    \A f \in SingleFilters, limit \in LimitArgs, offset \in OffsetArgs :
        FindManyArticle(DB, f[1], f[2], limit, offset, f[3]).count
            = Cardinality(MatchingArticles(f[1], f[2], f[3]))

(* what a call hands back to its caller *)
Returned(r) == <<r.models, r.count, r.err>>

PageArgs == {<<"1">>, <<"x">>}

(* C6: a non-empty tag makes the author and favorited arguments            *)
(* irrelevant, and with an empty tag a non-empty author makes the          *)
(* favorited argument irrelevant.                                          *)
C6_FilterPrecedence ==
    \A limit \in PageArgs, offset \in PageArgs :
        /\ \A tag \in TagArgs \ {""}, author \in NameArgs, favorited \in NameArgs :
              Returned(FindManyArticle(DB, tag, author, limit, offset, favorited))
                  = Returned(FindManyArticle(DB, tag, "", limit, offset, ""))
        /\ \A author \in NameArgs \ {""}, favorited \in NameArgs :
              Returned(FindManyArticle(DB, "", author, limit, offset, favorited))
                  = Returned(FindManyArticle(DB, "", author, limit, offset, ""))

(* a tag and an author that select different articles, both some *)
C6_Witness ==
    \E tag \in TagNames, author \in Range(UserNames) :
        LET t == FindManyArticle(DB, tag, "", <<>>, <<>>, "")
            a == FindManyArticle(DB, "", author, <<>>, <<>>, "")
        IN  /\ t.count > 0 /\ a.count > 0
            /\ Range(t.models) # Range(a.models)
            /\ FindManyArticle(DB, tag, author, <<>>, <<>>, "").models = t.models

(* s lists the articles of E, most recently updated first *)
MostRecentFirst(s, E) ==
    /\ Len(s) = Cardinality(E)
    /\ Range(s) = E
    /\ \A i, j \in DOMAIN s :
          i < j => article_models[s[i]].UpdatedAt > article_models[s[j]].UpdatedAt

(* the elements offset+1 .. offset+limit of s *)
Page(s, offset, limit) ==
    [k \in 1..(Min(Len(s), offset + limit) - offset) |-> s[offset + k]]

NumericArgs == {<<"0">>, <<"1">>, <<"2">>, <<"1", "0">>}

(* C7: with no filter FindManyArticle returns the requested page of the    *)
(* live articles, most recently updated first, and their number.           *)
C7_UnfilteredMostRecentFirst ==
    \A limit \in NumericArgs, offset \in NumericArgs :
        LET r == FindManyArticle(DB, "", "", limit, offset, "")
            live == {i \in ArticleIDs : ~article_models[i].Deleted}
        IN  /\ r.count = Cardinality(live)
            /\ \E s \in [1..Cardinality(live) -> live] :
                  /\ MostRecentFirst(s, live)
                  /\ r.models = Page(s, Atoi(offset).val, Atoi(limit).val)

(* the calls with exactly one filter set *)
FilteredCalls == {f \in SingleFilters : f # <<"", "", "">>}

RECURSIVE Decimal(_)
Decimal(n) ==
    IF n < 10 THEN <<DigitChars[n + 1]>>
    ELSE Decimal(n \div 10) \o <<DigitChars[(n % 10) + 1]>>

PageLimits == {1, 2}

(* C29: for one filter and a limit L > 0, the pages at offsets 0, L, 2L,   *)
(* ... share no article, hold every live matching article once between     *)
(* them, and every page before a non-empty one holds L articles.           *)
C29_PagesPartitionTheMatches ==
    \A f \in SingleFilters, L \in PageLimits :
        LET page(k) == FindManyArticle(DB, f[1], f[2], Decimal(L), Decimal(k * L), f[3]).models
            Pages == 0..(Len(article_models) + Len(favorite_models))
        IN  /\ \A j, k \in Pages : j # k => Range(page(j)) \cap Range(page(k)) = {}
            /\ \A k \in Pages : Cardinality(Range(page(k))) = Len(page(k))
            /\ UNION {Range(page(k)) : k \in Pages} = MatchingArticles(f[1], f[2], f[3])
            /\ \A j, k \in Pages : j < k /\ page(k) # <<>> => Len(page(j)) = L

DeletedArticles == {i \in ArticleIDs : article_models[i].Deleted}

(* C23: a deleted article is not found by its slug, and no later listing,  *)
(* under any filter, and no later feed returns it or counts it.            *)
C23_DeletedArticleIsGone ==
    \A d \in DeletedArticles :
        /\ FindOneArticle(article_models, article_models[d].Slug)
              = [ID |-> 0, err |-> TRUE]
        /\ \A f \in SingleFilters, limit \in NumericArgs, offset \in NumericArgs :
              LET r == FindManyArticle(DB, f[1], f[2], limit, offset, f[3])
              IN  /\ d \notin Range(r.models)
                  /\ r.count <= Cardinality(MatchingArticles(f[1], f[2], f[3]))
        /\ \A u \in Users, limit \in NumericArgs, offset \in NumericArgs :
              LET r == GetArticleFeed(DB, follow_models, u, limit, offset)
              IN  /\ d \notin Range(r.models)
                  /\ r.count <= Cardinality(LiveArticles(article_models))

----------------------------------------------------------------------------
(* Claims on the feed *)

(* C8: for a viewer who follows somebody, GetArticleFeed returns the       *)
(* number of live articles by followed users and the slice                 *)
(* [offset, offset+limit) of them, most recently updated first.            *)
C8_FeedIsFollowedAuthorsArticles ==
    \A u \in Users, limit \in NumericArgs, offset \in NumericArgs :
        (\E v \in Users : <<u, v>> \in follow_models) =>
            LET r == GetArticleFeed(DB, follow_models, u, limit, offset)
                E == {i \in ArticleIDs :
                        /\ ~article_models[i].Deleted
                        /\ <<u, UserOfAuthor(article_models[i].AuthorID)>> \in follow_models}
            IN  /\ ~r.err
                /\ r.count = Cardinality(E)
                /\ \E s \in [1..Cardinality(E) -> E] :
                      /\ MostRecentFirst(s, E)
                      /\ r.models = Page(s, Atoi(offset).val, Atoi(limit).val)

(* a viewer follows the author of two live articles, the older of which    *)
(* was updated last, and does not follow the author of a third             *)
C8_Witness ==
    \E u \in Users :
        LET r == GetArticleFeed(DB, follow_models, u, <<"1", "0">>, <<"0">>)
        IN  /\ r.count >= 2
            /\ r.models[1] < r.models[2]
            /\ \E i \in ArticleIDs :
                  ~article_models[i].Deleted /\ i \notin Range(r.models)

----------------------------------------------------------------------------
(* Claims on concurrent request tasks *)

LiveFavoritesOf(a, u) ==
    {i \in DOMAIN favorite_models :
        /\ ~favorite_models[i].Deleted
        /\ favorite_models[i].FavoriteID = a
        /\ favorite_models[i].FavoriteByID = u}

(* C1: however favoriteBy calls of one (article, author) pair interleave,  *)
(* storage holds at most one live Favorite row of the pair and             *)
(* favoritesCount counts the author once.                                  *)
C1_OneFavoritePerPair ==
    \A a \in ArticleIDs :
        /\ \A u \in AuthorIDs : Cardinality(LiveFavoritesOf(a, u)) <= 1
        /\ favoritesCount(favorite_models, a)
              = Cardinality({u \in AuthorIDs : LiveFavoritesOf(a, u) # {}})

(* C4: a listing or a feed run among writers returns a count and a page    *)
(* of one storage state: the page holds no more articles than were         *)
(* counted, and from offset 0 with a limit of at least the count it holds  *)
(* as many.                                                                *)
C4_CountAndPageOfOneState ==
    rd.pc = "returned" /\ ~rd.err =>
        /\ Len(rd.models) <= rd.count
        /\ (RdOffset = 0 /\ RdLimit >= rd.count => Len(rd.models) = rd.count)

SetTagsDone(p) == st[p].pc = "done" /\ st[p].tags # <<>>

(* C2: setTags calls racing on a name not yet stored all return no error,  *)
(* all associate the same Tag row with the name, and one row of the name   *)
(* exists.                                                                 *)
C2_RacingSetTagsShareOneRow ==
    /\ \A p \in Procs : st[p].pc = "done" => ~st[p].err
    /\ \A p, q \in Procs :
          SetTagsDone(p) /\ SetTagsDone(q) =>
              \A i \in DOMAIN st[p].Tags, j \in DOMAIN st[q].Tags :
                  st[p].tags[i] = st[q].tags[j] => st[p].Tags[i].ID = st[q].Tags[j].ID
    /\ \A i, j \in DOMAIN tag_models : tag_models[i].Tag = tag_models[j].Tag => i = j

(* two calls have finished that both asked for a name neither batch fetch saw *)
C2_Witness ==
    \E p, q \in Procs :
        /\ p # q
        /\ SetTagsDone(p) /\ SetTagsDone(q)
        /\ \E n \in Range(st[p].tags) \cap Range(st[q].tags) :
              /\ n \notin DOMAIN st[p].existingTagMap
              /\ n \notin DOMAIN st[q].existingTagMap

(* C10: a setTags call that succeeds leaves in model.Tags one entry per    *)
(* requested name, in request order, each a stored Tag row of that name,   *)
(* repeats included and referring to one row; the empty list gives no      *)
(* tags and no error.                                                      *)
C10_TagsMirrorRequest ==
    \A p \in Procs :
        /\ st[p].pc = "done" /\ st[p].tags = <<>> => st[p].Tags = <<>> /\ ~st[p].err
        /\ st[p].pc = "done" /\ ~st[p].err =>
              /\ Len(st[p].Tags) = Len(st[p].tags)
              /\ \A i \in DOMAIN st[p].Tags :
                    /\ st[p].Tags[i].Tag = st[p].tags[i]
                    /\ st[p].Tags[i].ID \in DOMAIN tag_models
                    /\ tag_models[st[p].Tags[i].ID].Tag = st[p].tags[i]
              /\ \A i, j \in DOMAIN st[p].Tags :
                    st[p].tags[i] = st[p].tags[j] => st[p].Tags[i].ID = st[p].Tags[j].ID

(* a call has succeeded on a list that repeats a name its batch fetch did  *)
(* not see: both entries are the one row of the name                       *)
C10_Witness ==
    \E p \in Procs :
        /\ SetTagsDone(p) /\ ~st[p].err
        /\ Len(st[p].tags) = 2
        /\ st[p].tags[1] = st[p].tags[2]
        /\ st[p].tags[1] \notin DOMAIN st[p].existingTagMap
        /\ Len(st[p].Tags) = 2
        /\ st[p].Tags[1].ID = st[p].Tags[2].ID

RowsOfUser(aum, uid) == {i \in DOMAIN aum : aum[i].UserModelID = uid}

(* C11: however GetArticleUserModel calls for one user interleave, storage *)
(* holds at most one ArticleUserModel row of that user.                    *)
C11_OneArticleUserPerUser ==
    \A uid \in Users : Cardinality(RowsOfUser(article_user_models, uid)) <= 1

----------------------------------------------------------------------------
(* Claims on GetArticleUserModel run alone *)

(* C12: GetArticleUserModel of user 0 returns the zero model and leaves    *)
(* storage as it is; called again and again with one user it returns one   *)
(* row, whose UserModelID is the user's ID, and storage holds one row of    *)
(* that user.                                                              *)
C12_GetArticleUserModelIdempotent ==
    /\ GetArticleUserModel(article_user_models, 0)
          = [rows |-> article_user_models, ID |-> 0]
    /\ \A uid \in Users :
          LET first  == GetArticleUserModel(article_user_models, uid)
              second == GetArticleUserModel(first.rows, uid)
              third  == GetArticleUserModel(second.rows, uid)
          IN  /\ first.ID \in DOMAIN first.rows
              /\ first.rows[first.ID].UserModelID = uid
              /\ second = first
              /\ third = first
              /\ Cardinality(RowsOfUser(third.rows, uid)) = 1

(* one user has a row whose ID is not the user's ID, another has none yet *)
C12_Witness ==
    /\ \E uid \in Users : ArticleUserFirst(article_user_models, uid) \notin {0, uid}
    /\ \E uid \in Users : ArticleUserFirst(article_user_models, uid) = 0

----------------------------------------------------------------------------
(* Claims on the batch resolvers *)

(* article IDs a caller may pass: 0, the stored ones and one never stored *)
BatchIDs == SUBSET (0..(MaxArticles + 1))
Viewers == 0..(Len(UserNames) + 1)

(* C13: BatchGetFavoriteCounts maps the IDs with live Favorite rows to     *)
(* their number, which is favoritesCount of the article, and omits the     *)
(* others; BatchGetFavoriteStatus maps the IDs the viewer has a live       *)
(* favorite on to true; no ID gives empty maps, and so does viewer 0.      *)
C13_BatchResolvers ==
    \A ids \in BatchIDs :
        LET counts == BatchGetFavoriteCounts(favorite_models, ids)
            rowsOf(id) == UNION {LiveFavoritesOf(id, u) : u \in AuthorIDs}
        IN  /\ DOMAIN counts = {id \in ids : rowsOf(id) # {}}
            /\ \A id \in DOMAIN counts :
                  /\ counts[id] = Cardinality(rowsOf(id))
                  /\ counts[id] = favoritesCount(favorite_models, id)
            /\ ids = {} => counts = <<>>
            /\ \A viewer \in Viewers :
                  LET status == BatchGetFavoriteStatus(favorite_models, ids, viewer)
                  IN  /\ viewer # 0 =>
                            /\ DOMAIN status = {id \in ids : LiveFavoritesOf(id, viewer) # {}}
                            /\ \A id \in DOMAIN status : status[id] = TRUE
                      /\ viewer = 0 \/ ids = {} => status = <<>>

(* of two articles one has a live favorite and the other only a removed one *)
C13_Witness ==
    \E a, b \in ArticleIDs :
        /\ DOMAIN BatchGetFavoriteCounts(favorite_models, {a, b}) = {a}
        /\ \E i \in DOMAIN favorite_models :
              favorite_models[i].Deleted /\ favorite_models[i].FavoriteID = b
        /\ \E u \in AuthorIDs :
              BatchGetFavoriteStatus(favorite_models, {a, b}, u) = (a :> TRUE)

(* the viewers of a request: the users, and 0 for a request without a user *)
Identities == Users \cup {0}

(* C25: for every article and every viewer, the anonymous one included,    *)
(* ArticleSerializer.Response and ArticlesSerializer.Response report the   *)
(* same favorited flag and the same favorites count.                       *)
C25_SerializersAgree ==
    \A viewer \in Identities, articleIDs \in SUBSET ArticleIDs, a \in ArticleIDs :
        a \in articleIDs =>
            ArticlesSerializerResponse(article_user_models, favorite_models, articleIDs, viewer)[a]
                = ArticleSerializerResponse(article_user_models, favorite_models, a, viewer)

(* C26: isFavoriteBy(user) is true exactly when a live Favorite row has    *)
(* this article and this user; it is false for the zero-value user         *)
(* whoever has favorited the article.                                      *)
C26_IsFavoriteByExactPair ==
    \A a \in ArticleIDs, user \in AuthorIDs \cup {0} :
        isFavoriteBy(favorite_models, a, user) <=> LiveFavoritesOf(a, user) # {}

----------------------------------------------------------------------------
(* Claims on the arguments of the listing *)

EmptyResult == <<<<>>, 0, FALSE>>
UnknownTags == {t \in TagArgs \ {""} : \A i \in DOMAIN tag_models : tag_models[i].Tag # t}
UnknownNames == {n \in NameArgs \ {""} : \A u \in Users : UserNames[u] # n}

(* C14: FindManyArticle whose active filter names no stored tag, or no     *)
(* user, returns no article, the count zero and no error.                  *)
C14_UnknownSubjectIsEmpty ==
    \A limit \in PageArgs, offset \in PageArgs :
        /\ \A tag \in UnknownTags, author \in NameArgs, favorited \in NameArgs :
              Returned(FindManyArticle(DB, tag, author, limit, offset, favorited))
                  = EmptyResult
        /\ \A author \in UnknownNames, favorited \in NameArgs :
              Returned(FindManyArticle(DB, "", author, limit, offset, favorited))
                  = EmptyResult
        /\ \A favorited \in UnknownNames :
              Returned(FindManyArticle(DB, "", "", limit, offset, favorited)) = EmptyResult

(* a tagged article of alice that alice has favorited is live, and one tag *)
(* name is still unknown                                                   *)
C14_Witness ==
    /\ FindManyArticle(DB, "", "alice", <<>>, <<>>, "").count > 0
    /\ FindManyArticle(DB, "", "", <<>>, <<>>, "alice").models # <<>>
    /\ \E tag \in TagNames : FindManyArticle(DB, tag, "", <<>>, <<>>, "").count > 0
    /\ UnknownTags \cap TagNames # {}

(* strings strconv.Atoi rejects *)
BadNumbers == {<<>>, <<"x">>, <<"1", "x">>, <<"-">>}
Twenty == <<"2", "0">>
Zero == <<"0">>

(* C15: in the listing and in the feed a limit that is no integer acts as  *)
(* limit 20 and an offset that is no integer as offset 0, each whatever    *)
(* the other is, and neither makes the call return an error.               *)
C15_BadNumbersFallBack ==
    \A bad \in BadNumbers, other \in NumericArgs \cup BadNumbers :
        /\ \A author \in NameArgs :
              LET l == Returned(FindManyArticle(DB, "", author, bad, other, ""))
                  o == Returned(FindManyArticle(DB, "", author, other, bad, ""))
              IN  /\ l = Returned(FindManyArticle(DB, "", author, Twenty, other, ""))
                  /\ o = Returned(FindManyArticle(DB, "", author, other, Zero, ""))
                  /\ ~l[3] /\ ~o[3]
        /\ \A u \in Users :
              LET l == Returned(GetArticleFeed(DB, follow_models, u, bad, other))
                  o == Returned(GetArticleFeed(DB, follow_models, u, other, bad))
              IN  /\ l = Returned(GetArticleFeed(DB, follow_models, u, Twenty, other))
                  /\ o = Returned(GetArticleFeed(DB, follow_models, u, other, Zero))
                  /\ ~l[3] /\ ~o[3]

(* the listing and somebody's feed hold two articles or more, so that a    *)
(* limit or an offset of 1 would show                                      *)
C15_Witness ==
    /\ Len(FindManyArticle(DB, "", "", <<"x">>, <<"x">>, "").models) >= 2
    /\ \E u \in Users :
          Len(GetArticleFeed(DB, follow_models, u, <<"x">>, <<"x">>).models) >= 2

----------------------------------------------------------------------------
(* Claims on the feed of a viewer who follows nobody *)

FollowsNobody(u) == \A v \in Users : <<u, v>> \notin follow_models

(* the step of the feed that reads the followings of such a viewer *)
ReadsNoFollowings ==
    /\ rd.pc = "followings"
    /\ rd'.pc # "followings"
    /\ FollowsNobody(rd.uid)

(* C16: the feed of a viewer who follows nobody is no article, the count   *)
(* zero and no error, whatever is stored; the call goes from reading the   *)
(* followings to its commit, past every query of the article table, and    *)
(* returns what it held there.                                             *)
C16_NobodyFollowedNoQuery ==
    /\ [](\A u \in Users, page \in TxPages :
              FollowsNobody(u) =>
                  Returned(GetArticleFeed(DB, follow_models, u, page[1], page[2]))
                      = EmptyResult)
    /\ [][ReadsNoFollowings =>
              /\ rd'.pc = "commit"
              /\ rd'.tx = "begun"
              /\ <<rd'.models, rd'.count, rd'.err>> = EmptyResult]_vars
    /\ [][rd.call = "feed" /\ rd.pc = "commit" /\ rd'.pc # "commit" =>
              /\ rd'.pc = "returned"
              /\ <<rd'.models, rd'.count, rd'.err>> = <<rd.models, rd.count, FALSE>>]_vars

(* such a feed has returned while live articles are stored *)
C16_Witness ==
    /\ rd.call = "feed"
    /\ rd.pc = "returned"
    /\ FollowsNobody(rd.uid)
    /\ LiveArticles(article_models) # {}
    /\ <<rd.models, rd.count, rd.err>> = EmptyResult

----------------------------------------------------------------------------
(* Claims on what a removal leaves alone *)

(* C17: unFavoriteBy of a pair without a live Favorite row changes no row; *)
(* unFavoriteBy of a favorited pair removes that pair's favorite and       *)
(* leaves every other author's favorite on the article, and the author's   *)
(* favorite on every other article, as it was.                             *)
C17_UnFavoriteByFrame ==
    \A a \in 0..(MaxArticles + 1), u \in Viewers :
        LET after == unFavoriteBy(favorite_models, a, u)
        IN  /\ LiveFavoritesOf(a, u) = {} => after = favorite_models
            /\ DOMAIN after = DOMAIN favorite_models
            /\ \A i \in DOMAIN after :
                  IF i \in LiveFavoritesOf(a, u)
                  THEN after[i] = [favorite_models[i] EXCEPT !.Deleted = TRUE]
                  ELSE after[i] = favorite_models[i]
            /\ \A b \in ArticleIDs, v \in AuthorIDs :
                  <<b, v>> # <<a, u>> =>
                      isFavoriteBy(after, b, v) = isFavoriteBy(favorite_models, b, v)
            /\ \A b \in ArticleIDs \ {a} :
                  favoritesCount(after, b) = favoritesCount(favorite_models, b)

(* two authors have a live favorite on one article *)
C17_Witness ==
    \E a \in ArticleIDs, u, v \in AuthorIDs :
        /\ u # v
        /\ LiveFavoritesOf(a, u) # {}
        /\ LiveFavoritesOf(a, v) # {}

ArticleMatches(slug) == {i \in ArticleIDs : ~article_models[i].Deleted /\ article_models[i].Slug = slug}

CommentMatches(condition) ==
    {i \in DOMAIN comment_models :
        /\ ~comment_models[i].Deleted
        /\ condition.ID \in {0, i}
        /\ condition.Body \in {"", comment_models[i].Body}}

(* C18: DeleteArticleModel and DeleteCommentModel with a condition that    *)
(* matches no live row return no error and leave the table as it is;       *)
(* deleting by one condition twice returns no error either time, and the   *)
(* second delete changes nothing.                                          *)
C18_DeleteWithoutMatch ==
    /\ \A slug \in 1..(MaxArticles + 1) :
          LET once == DeleteArticleModel(article_models, slug)
          IN  /\ ~DeleteArticleModelError(slug)
              /\ ArticleMatches(slug) = {} => once = article_models
              /\ DeleteArticleModel(once, slug) = once
    /\ \A condition \in CommentConditions :
          LET once == DeleteCommentModel(comment_models, condition)
          IN  /\ ~DeleteCommentModelError(condition)
              /\ CommentMatches(condition) = {} => once = comment_models
              /\ DeleteCommentModel(once, condition) = once

(* an article and a comment have been deleted, another comment with        *)
(* another body is live                                                    *)
C18_Witness ==
    /\ \E i \in ArticleIDs : article_models[i].Deleted
    /\ \E i, j \in DOMAIN comment_models :
          /\ comment_models[i].Deleted
          /\ ~comment_models[j].Deleted
          /\ comment_models[i].Body # comment_models[j].Body

----------------------------------------------------------------------------
(* Claims on slugs and tags *)

(* C19: no two live articles share a slug, and once every article of a     *)
(* slug has been deleted, SaveOne of a new article with that slug stores   *)
(* it.                                                                     *)
C19_SlugUniqueAmongLive ==
    /\ \A i, j \in LiveArticles(article_models) :
          article_models[i].Slug = article_models[j].Slug => i = j
    /\ \A slug \in 1..(MaxArticles + 1), author \in AuthorIDs :
          ArticleMatches(slug) = {} =>
              LET saved == SaveOne(article_models, slug, author, clock, <<>>)
              IN  /\ Len(saved) = Len(article_models) + 1
                  /\ saved[Len(saved)].Slug = slug
                  /\ ~saved[Len(saved)].Deleted

StoredTagNames == {tag_models[i].Tag : i \in DOMAIN tag_models}

(* C24: setTags run alone looks up every requested name that is stored in  *)
(* the batch fetch's map, so that no create is tried for it, and           *)
(* associates the stored row; it adds one Tag row for each distinct        *)
(* requested name that is not stored, and changes no stored row.           *)
C24_SetTagsReusesAndCreates ==
    \A tags \in TagLists :
        LET r == setTags(tag_models, tags)
            absent == Range(tags) \ StoredTagNames
        IN  /\ ~r.err
            /\ Range(tags) \cap StoredTagNames \subseteq DOMAIN ExistingTagMap(tag_models, tags)
            /\ \A i \in DOMAIN tags :
                  tags[i] \in StoredTagNames =>
                      /\ i \in DOMAIN r.Tags
                      /\ r.Tags[i].ID = TagByName(tag_models, tags[i])
            /\ Len(r.tm) = Len(tag_models) + Cardinality(absent)
            /\ \A i \in DOMAIN tag_models : r.tm[i] = tag_models[i]
            /\ {r.tm[i].Tag : i \in (Len(tag_models) + 1)..Len(r.tm)} = absent

(* an article was saved with one tag, and a later one with that tag and a  *)
(* new one: its setTags reused the first row and created the second        *)
C24_Witness ==
    /\ Len(tag_models) = 2
    /\ \E i, j \in ArticleIDs :
          i < j /\ article_models[i].Tags = {1} /\ article_models[j].Tags = {1, 2}

(* C20: no two Tag rows have one name, and no step removes or changes a    *)
(* stored Tag row: the table only grows.                                   *)
C20_TagsUniqueAndKept ==
    /\ [](\A i, j \in DOMAIN tag_models : tag_models[i].Tag = tag_models[j].Tag => i = j)
    /\ [][\A i \in DOMAIN tag_models :
              i \in DOMAIN tag_models' /\ tag_models'[i] = tag_models[i]]_vars

(* both tags are stored and an article that carried one has been deleted *)
C20_Witness ==
    /\ Len(tag_models) = Cardinality(TagNames)
    /\ \E i \in ArticleIDs : article_models[i].Deleted /\ article_models[i].Tags # {}

----------------------------------------------------------------------------
(* Claims on the middleware *)

(* C30: behind AuthMiddleware(true) a request without a verifying token is *)
(* aborted with 401 and a handler runs only on a verifying token, with the *)
(* stored user of the token's non-zero id as my_user_model; behind         *)
(* AuthMiddleware(false) a request without a verifying token goes on with  *)
(* identity 0.                                                             *)
C30_AuthenticatedHandlerHasUser ==
    ctx.pc # "idle" =>
        /\ ctx.auto401 /\ ctx.token.kind # "valid" =>
              ctx.pc = "aborted" /\ ctx.status = 401
        /\ ctx.auto401 /\ ctx.pc \in {"handler", "served"} =>
              /\ ctx.token.kind = "valid"
              /\ ctx.my_user_model # 0
              /\ ctx.my_user_model \in Users
              /\ ctx.my_user_model = ctx.token.id
        /\ ~ctx.auto401 /\ ctx.token.kind # "valid" =>
              /\ ctx.pc \in {"handler", "served"}
              /\ ctx.my_user_id = 0 /\ ctx.my_user_model = 0

----------------------------------------------------------------------------
(* Claims on failing storage calls *)

(* the user the author or favorited filter of the call in flight names *)
RdNamedUser ==
    CASE RdPath = "author"    -> UserByName(rd.author)
      [] RdPath = "favorited" -> UserByName(rd.favorited)
      [] OTHER                -> 0

(* C27: a step of FindManyArticle or GetArticleFeed changes no article,    *)
(* tag, tag association, favorite or comment; the one row it may add is    *)
(* the ArticleUserModel of the existing user its author or favorited       *)
(* filter names, when that user has none; the insert is no statement of    *)
(* the transaction, and no later step of the call, rollback included,      *)
(* takes it back.                                                          *)
C27_ListingWritesOnlyAuthorRow ==
    [][rd.pc # "idle" =>
          /\ UNCHANGED <<article_models, tag_models, favorite_models, comment_models>>
          /\ article_user_models' # article_user_models =>
                /\ rd.call = "list"
                /\ RdNamedUser # 0
                /\ RowsOfUser(article_user_models, RdNamedUser) = {}
                /\ article_user_models' =
                      Append(article_user_models, ArticleUserRow(RdNamedUser))
                /\ rd'.tx = rd.tx /\ rd'.snap = rd.snap]_vars

(* an author listing made the author's row and was then rolled back: the   *)
(* row is stored                                                           *)
C27_Witness ==
    /\ rd.call = "list" /\ rd.tx = "rolledback" /\ RdPath = "author"
    /\ article_models = <<>>
    /\ RowsOfUser(article_user_models, rd.uid) # {}

TxOpen == {"begun", "reading"}
TxEnded == {"committed", "commit failed", "rolledback"}

(* C28: the transaction a listing or a feed begins is open while the call  *)
(* runs and ended when it returns; it is ended by one step, a rollback     *)
(* after a failed association Find, returning the error, or the commit,    *)
(* and an ended transaction is not ended again.                            *)
C28_TransactionEndedOnce ==
    /\ [](/\ rd.pc = "idle" => rd.tx = "none"
          /\ rd.pc \notin {"idle", "returned"} => rd.tx \in TxOpen
          /\ rd.pc = "returned" => rd.tx \in TxEnded)
    /\ [][rd.tx \in TxOpen /\ rd'.tx \notin TxOpen =>
              /\ rd'.pc = "returned"
              /\ \/ /\ rd'.tx = "rolledback"
                    /\ rd.pc \in {"tag_find", "author_find"}
                    /\ rd'.err
                 \/ /\ rd'.tx \in {"committed", "commit failed"}
                    /\ rd.pc = "commit"]_vars
    /\ [][rd.tx \in TxEnded => rd'.tx = rd.tx \/ rd' = RdIdle]_vars

(* an author listing has counted, its association Find failed, and it     *)
(* returned after the rollback                                             *)
C28_Witness ==
    /\ rd.pc = "returned" /\ rd.tx = "rolledback" /\ rd.err
    /\ rd.call = "list" /\ rd.count > 0

(* C21: a setTags call that returns an error leaves the article's Tags as  *)
(* they were (none), and no Tag row the call inserted remains stored.      *)
C21_SetTagsFailsAtomically ==
    \A p \in Procs :
        st[p].pc = "done" /\ st[p].err =>
            /\ st[p].Tags = <<>>
            /\ \A id \in st[p].created : id \notin DOMAIN tag_models


(* what the call in flight returns when no storage call fails *)
Unfailing ==
    IF rd.call = "list"
    THEN Returned(FindManyArticle(DB, rd.tag, rd.author, rd.limit, rd.offset, rd.favorited))
    ELSE Returned(GetArticleFeed(DB, follow_models, rd.uid, rd.limit, rd.offset))

(* C9: whichever storage calls of a listing or of a feed fail, the call    *)
(* returns either the articles and the count of a call without failure     *)
(* and no error, or no article, the count zero and an error.               *)
C9_ValidResultOrBareError ==
    rd.pc = "returned" =>
        \/ ~rd.err /\ <<rd.models, rd.count, rd.err>> = Unfailing
        \/ rd.err /\ rd.models = <<>> /\ rd.count = 0
====
